---- MODULE Spec2Model ----
(***************************************************************************)
(* Event-Generators: resource allocation for time-bounded events.          *)
(*                                                                         *)
(* The model covers the conflict checker (validators/conflict_checker.py), *)
(* the constraint service (services/constraint_service.py) and the         *)
(* create-event workflows of cli/main.py and main.py.                      *)
(*                                                                         *)
(* Time is counted in half days: a datetime is a natural number of half    *)
(* days since an arbitrary origin, so that timedelta(days=1) is DayLen.    *)
(* The SQL NULL / Python None of an integer column is modelled as 0, the   *)
(* value that Python's truth test treats the same way.                     *)
(***************************************************************************)
EXTENDS Integers, Sequences, FiniteSets, TLC

\* ------------------------------------------------------------------ bounds
MaxRows   == 2   \* most events in a drawn ledger
MaxRules  == 2   \* most rule rows in the rule store
MaxLen    == 2   \* longest resource id list a caller passes
MaxOcc    == 2   \* most occurrences of one recurring request
MaxEvents == 3   \* most rows the events table grows to
MaxDays   == 2   \* largest max_days_ahead of a slot search
MaxUsage  == 3   \* largest quantity and farthest usage of a Resource followed

\* ----------------------------------------------------------------- domains
Quantities == {0, 2}                \* resources.quantity values drawn
Starts     == {0, 1, 3}             \* start times of drawn ledger events
Durations  == {1, 2}                \* their durations
Clock      == {0, 2}                \* values of NOW()
ReqStarts  == {1}                   \* start times of direct conflict checks
ReqEnds    == {2, 3}                \* their end times

\* --------------------------------------------------------------- constants
DayLen    == 2                      \* timedelta(days=1), in half days
WeekLen   == 7 * DayLen             \* timedelta(weeks=1)

ResIds    == {1, 2}                 \* resources.id values in use
CIds      == {1, 2}                 \* constraints.id values in use
Statuses  == {"scheduled", "cancelled", "completed"}
RuleTypes == {"requires", "excludes", "max_capacity", "min_quantity"}
Callers   == {1, 2}
NULL      == 0

VARIABLES
    quantity,         \* resources.quantity, by resource id
    events,           \* table events: sequence indexed by id
    event_resources,  \* table event_resources: set of rows
    now,              \* the database clock, NOW()
    constraints,      \* table constraints: is_active, by constraint id
    constraint_rules, \* table constraint_rules joined in c.id order
    chk,              \* last call of check_resource_conflict
    mchk,             \* last call of check_multiple_resources_conflict
    slot,             \* last call of find_available_time_slot
    vres,             \* last call of validate_resources
    pc,               \* per caller: position in the create-event workflow
    req,              \* per caller: the request being processed
    trace,            \* per caller: store calls made for the request
    fails,            \* the stores whose queries raise mariadb.Error
    svc,              \* last call made on the event service or its menu
    resource          \* a Resource object and its last method call

vars == <<quantity, events, event_resources, now, constraints,
          constraint_rules, chk, mchk, slot, vres, pc, req, trace,
          fails, svc, resource>>

ledgerVars == <<quantity, events, event_resources, now>>
ruleVars   == <<constraints, constraint_rules>>
callVars   == <<pc, req, trace>>
serviceVars == <<fails, svc, resource>>

\* ------------------------------------------------------------ generic help
RECURSIVE SumUsed(_)
SumUsed(rows) ==
    IF rows = {} THEN 0
    ELSE LET x == CHOOSE y \in rows : TRUE
         IN  x.quantity_used + SumUsed(rows \ {x})

InSeq(x, s) == \E i \in 1..Len(s) : s[i] = x

SeqsUpTo(S, n) == UNION {[1..k -> S] : k \in 0..n}

\* ------------------------------------------------- conflict_checker.py
\* SQL "x BETWEEN lo AND hi": both ends inclusive.
Between(x, lo, hi) == lo <= x /\ x <= hi

\* The time part of the WHERE clause of check_resource_conflict.
TimeClause(ev, start_time, end_time) ==
    \/ Between(start_time, ev.start_time, ev.end_time)
    \/ Between(end_time, ev.start_time, ev.end_time)
    \/ Between(ev.start_time, start_time, end_time)
    \/ (ev.start_time < end_time /\ ev.end_time > start_time)

\* Mutant: the WHERE clause lacks "er.resource_id = %s".
ConflictRows_any_resource(resource_id, start_time, end_time, exclude_event_id) ==
    { [event_id      |-> er.event_id,
       start_time    |-> events[er.event_id].start_time,
       end_time      |-> events[er.event_id].end_time,
       quantity_used |-> er.quantity_used] :
      er \in { x \in event_resources :
                 /\ x.event_id \in 1..Len(events)
                 /\ events[x.event_id].status = "scheduled"
                 /\ events[x.event_id].end_time > now
                 /\ TimeClause(events[x.event_id], start_time, end_time)
                 /\ (exclude_event_id # NULL => x.event_id # exclude_event_id) } }

\* Mutant: the query never gets "AND e.id != %s".
ConflictRows_no_exclusion(resource_id, start_time, end_time, exclude_event_id) ==
    { [event_id      |-> er.event_id,
       start_time    |-> events[er.event_id].start_time,
       end_time      |-> events[er.event_id].end_time,
       quantity_used |-> er.quantity_used] :
      er \in { x \in event_resources :
                 /\ x.resource_id = resource_id
                 /\ x.event_id \in 1..Len(events)
                 /\ events[x.event_id].status = "scheduled"
                 /\ events[x.event_id].end_time > now
                 /\ TimeClause(events[x.event_id], start_time, end_time) } }

\* The rows the query of check_resource_conflict returns.
ConflictRows(resource_id, start_time, end_time, exclude_event_id) ==
    { [event_id      |-> er.event_id,
       start_time    |-> events[er.event_id].start_time,
       end_time      |-> events[er.event_id].end_time,
       quantity_used |-> er.quantity_used] :
      er \in { x \in event_resources :
                 /\ x.resource_id = resource_id
                 /\ x.event_id \in 1..Len(events)
                 /\ events[x.event_id].status = "scheduled"
                 /\ events[x.event_id].end_time > now
                 /\ TimeClause(events[x.event_id], start_time, end_time)
                 /\ (exclude_event_id # NULL => x.event_id # exclude_event_id) } }

\* ConflictChecker._determine_conflict_type
determine_conflict_type(new_start, new_end, existing_start, existing_end) ==
    IF new_start < existing_start /\ new_end > existing_end THEN "contains"
    ELSE IF new_start > existing_start /\ new_end < existing_end THEN "contained"
    ELSE IF new_start <= existing_end /\ new_end >= existing_start THEN "overlap"
    ELSE IF new_end = existing_start \/ new_start = existing_end THEN "adjacent"
    ELSE "unknown"

\* "ORDER BY e.start_time": the rows as a list, the earliest start first;
\* rows of equal start come in event id order.
RECURSIVE OrderByStart(_)
OrderByStart(rows) ==
    IF rows = {} THEN <<>>
    ELSE LET first == CHOOSE x \in rows :
                        \A y \in rows :
                            \/ x.start_time < y.start_time
                            \/ (x.start_time = y.start_time
                                /\ x.event_id <= y.event_id)
         IN  <<first>> \o OrderByStart(rows \ {first})

\* The dict that check_resource_conflict builds for a row of the query.
ConflictDetail(row, start_time, end_time) ==
    [event_id       |-> row.event_id,
     existing_start |-> row.start_time,
     existing_end   |-> row.end_time,
     quantity_used  |-> row.quantity_used,
     conflict_type  |-> determine_conflict_type(start_time, end_time,
                                                row.start_time, row.end_time)]

\* check_resource_conflict: (has_conflict, conflicts).
\* The detail check_resource_conflict returns when its query raises:
\* {'error': str(e)}.
QueryError == [error |-> "mariadb.Error"]

\* Mutant: a query that raises is answered with "no conflict".
check_resource_conflict_fail_open(resource_id, start_time, end_time, exclude_event_id) ==
    LET results == IF "event_resources" \in fails THEN <<>>
                   ELSE OrderByStart(ConflictRows(resource_id, start_time,
                                                  end_time, exclude_event_id))
    IN  [has_conflict |-> results # <<>>,
         conflicts    |-> [k \in 1..Len(results) |->
                             ConflictDetail(results[k], start_time, end_time)]]

check_resource_conflict(resource_id, start_time, end_time, exclude_event_id) ==
    IF "event_resources" \in fails
    THEN [has_conflict |-> TRUE, conflicts |-> <<QueryError>>]
    ELSE LET results == OrderByStart(ConflictRows(resource_id, start_time,
                                                  end_time, exclude_event_id))
         IN  [has_conflict |-> results # <<>>,
              conflicts    |-> [k \in 1..Len(results) |->
                                  ConflictDetail(results[k], start_time,
                                                 end_time)]]

\* Mutant: the loop stops at the first resource in conflict.
RECURSIVE MultiLoop_short_circuit(_, _, _, _, _, _, _)
MultiLoop_short_circuit(resource_ids, start_time, end_time, exclude_event_id, i, all_conflicts, conflicting_resources) ==
    IF i > Len(resource_ids)
    THEN [all_conflicts |-> all_conflicts,
          conflicting_resources |-> conflicting_resources]
    ELSE LET r == check_resource_conflict(resource_ids[i], start_time, end_time,
                                          exclude_event_id)
         IN  IF r.has_conflict
             THEN [all_conflicts |-> all_conflicts \o r.conflicts,
                   conflicting_resources |->
                       Append(conflicting_resources, resource_ids[i])]
             ELSE MultiLoop_short_circuit(resource_ids, start_time, end_time,
                                          exclude_event_id, i + 1,
                                          all_conflicts, conflicting_resources)

\* The "for resource_id in resource_ids" loop of
\* check_multiple_resources_conflict, from position i on.
RECURSIVE MultiLoop(_, _, _, _, _, _, _)
MultiLoop(resource_ids, start_time, end_time, exclude_event_id, i, all_conflicts, conflicting_resources) ==
    IF i > Len(resource_ids)
    THEN [all_conflicts |-> all_conflicts,
          conflicting_resources |-> conflicting_resources]
    ELSE LET r == check_resource_conflict(resource_ids[i], start_time, end_time,
                                          exclude_event_id)
         IN  IF r.has_conflict
             THEN MultiLoop(resource_ids, start_time, end_time, exclude_event_id,
                            i + 1, all_conflicts \o r.conflicts,
                            Append(conflicting_resources, resource_ids[i]))
             ELSE MultiLoop(resource_ids, start_time, end_time, exclude_event_id,
                            i + 1, all_conflicts, conflicting_resources)

\* check_multiple_resources_conflict: every id is checked, in list order.
check_multiple_resources_conflict(resource_ids, start_time, end_time, exclude_event_id) ==
    LET loop == MultiLoop(resource_ids, start_time, end_time, exclude_event_id,
                          1, <<>>, <<>>)
    IN  [has_conflict            |-> Len(loop.conflicting_resources) > 0,
         conflicting_resources   |-> loop.conflicting_resources,
         conflicts               |-> loop.all_conflicts,
         total_resources_checked |-> Len(resource_ids),
         conflicting_count       |-> Len(loop.conflicting_resources)]

\* find_available_time_slot counts time in hours: a datetime is the number
\* of hours since 00:00 of day 0.
HoursPerDay == 24
FirstHour   == 8     \* range(8, 20)
LastHour    == 19

DateOf(t) == t \div HoursPerDay

\* Mutant: the day loop runs while day_offset <= max_days_ahead.
RECURSIVE SlotLoop_one_day_more(_, _, _, _, _, _, _, _)
SlotLoop_one_day_more(resource_ids, current_date, duration_hours, max_days_ahead, exclude_event_id, day_offset, hour, checks) ==
    IF day_offset > max_days_ahead
    THEN [result |-> [available        |-> FALSE,
                      reason           |-> "exhausted",
                      max_days_checked |-> max_days_ahead],
          checks |-> checks]
    ELSE IF hour > LastHour
    THEN SlotLoop_one_day_more(resource_ids, current_date, duration_hours,
                               max_days_ahead, exclude_event_id,
                               day_offset + 1, FirstHour, checks)
    ELSE LET candidate_start == (current_date + day_offset) * HoursPerDay + hour
             candidate_end == candidate_start + duration_hours
             candidate_result == check_multiple_resources_conflict(
                                     resource_ids, candidate_start,
                                     candidate_end, exclude_event_id)
         IN  IF ~candidate_result.has_conflict
             THEN [result |-> [available   |-> TRUE,
                               start_time  |-> candidate_start,
                               end_time    |-> candidate_end,
                               reason      |-> "candidate",
                               days_offset |-> day_offset,
                               hour        |-> hour],
                   checks |-> checks + 1]
             ELSE SlotLoop_one_day_more(resource_ids, current_date,
                                        duration_hours, max_days_ahead,
                                        exclude_event_id, day_offset, hour + 1,
                                        checks + 1)

\* The loops "for day_offset in range(max_days_ahead)" and "for hour in
\* range(8, 20)" of find_available_time_slot, from (day_offset, hour) on;
\* checks counts the calls of check_multiple_resources_conflict made.
RECURSIVE SlotLoop(_, _, _, _, _, _, _, _)
SlotLoop(resource_ids, current_date, duration_hours, max_days_ahead, exclude_event_id, day_offset, hour, checks) ==
    IF day_offset >= max_days_ahead
    THEN [result |-> [available        |-> FALSE,
                      reason           |-> "exhausted",
                      max_days_checked |-> max_days_ahead],
          checks |-> checks]
    ELSE IF hour > LastHour
    THEN SlotLoop(resource_ids, current_date, duration_hours, max_days_ahead,
                  exclude_event_id, day_offset + 1, FirstHour, checks)
    ELSE LET candidate_start == (current_date + day_offset) * HoursPerDay + hour
             candidate_end == candidate_start + duration_hours
             candidate_result == check_multiple_resources_conflict(
                                     resource_ids, candidate_start,
                                     candidate_end, exclude_event_id)
         IN  IF ~candidate_result.has_conflict
             THEN [result |-> [available   |-> TRUE,
                               start_time  |-> candidate_start,
                               end_time    |-> candidate_end,
                               reason      |-> "candidate",
                               days_offset |-> day_offset,
                               hour        |-> hour],
                   checks |-> checks + 1]
             ELSE SlotLoop(resource_ids, current_date, duration_hours,
                           max_days_ahead, exclude_event_id, day_offset,
                           hour + 1, checks + 1)

\* Mutant: the desired window is not tried before the sweep.
find_available_time_slot_sweep_only(resource_ids, desired_start, desired_end, duration_hours, max_days_ahead, exclude_event_id) ==
    SlotLoop(resource_ids, DateOf(desired_start), duration_hours,
             max_days_ahead, exclude_event_id, 0, FirstHour, 0)

\* ConflictChecker.find_available_time_slot: the dict returned, and the
\* number of multi-resource checks made.
find_available_time_slot(resource_ids, desired_start, desired_end, duration_hours, max_days_ahead, exclude_event_id) ==
    LET desired_result == check_multiple_resources_conflict(
                              resource_ids, desired_start, desired_end,
                              exclude_event_id)
    IN  IF ~desired_result.has_conflict
        THEN [result |-> [available  |-> TRUE,
                          start_time |-> desired_start,
                          end_time   |-> desired_end,
                          reason     |-> "desired"],
              checks |-> 1]
        ELSE SlotLoop(resource_ids, DateOf(desired_start), duration_hours,
                      max_days_ahead, exclude_event_id, 0, FirstHour, 1)

\* ------------------------------------------------- constraint_service.py
\* Mutant: the query lacks "WHERE c.is_active = TRUE".
ActiveRuleRows_all == constraint_rules

\* The rows of the query of validate_resources: the rules of the active
\* constraints, in c.id order (the column value is read by no rule type).
ActiveRuleRows ==
    SelectSeq(constraint_rules, LAMBDA row : constraints[row.constraint_id])

\* Mutant: a rule is also selected for its related resource (symmetric rules).
resource_rules_symmetric(rules, resource_id) ==
    SelectSeq(rules, LAMBDA r : r.resource_id = resource_id
                                \/ r.related_resource_id = resource_id)

\* resource_rules = [r for r in rules if r['resource_id'] == resource_id]
resource_rules(rules, resource_id) ==
    SelectSeq(rules, LAMBDA r : r.resource_id = resource_id)

\* Mutant: the requires test reads "in" where the code reads "not in".
rule_violations_requires_inverted(resource_id, rule, resource_ids) ==
    LET related_id == rule.related_resource_id
    IN  IF rule.rule_type = "requires"
        THEN IF related_id # NULL /\ InSeq(related_id, resource_ids)
             THEN <<[type |-> "missing_requirement",
                     resource_id |-> resource_id,
                     related_resource_id |-> related_id]>>
             ELSE <<>>
        ELSE IF rule.rule_type = "excludes"
        THEN IF related_id # NULL /\ InSeq(related_id, resource_ids)
             THEN <<[type |-> "mutual_exclusion",
                     resource_id |-> resource_id,
                     related_resource_id |-> related_id]>>
             ELSE <<>>
        ELSE <<>>

\* Mutant: the tests lack "related_id and", and a rule of another type is
\* taken for a requires rule.
rule_violations_unguarded(resource_id, rule, resource_ids) ==
    LET related_id == rule.related_resource_id
    IN  IF rule.rule_type = "excludes"
        THEN IF InSeq(related_id, resource_ids)
             THEN <<[type |-> "mutual_exclusion",
                     resource_id |-> resource_id,
                     related_resource_id |-> related_id]>>
             ELSE <<>>
        ELSE IF ~InSeq(related_id, resource_ids)
             THEN <<[type |-> "missing_requirement",
                     resource_id |-> resource_id,
                     related_resource_id |-> related_id]>>
             ELSE <<>>

\* Mutant: the excludes branch is missing.
rule_violations_no_excludes(resource_id, rule, resource_ids) ==
    LET related_id == rule.related_resource_id
    IN  IF rule.rule_type = "requires"
        THEN IF related_id # NULL /\ ~InSeq(related_id, resource_ids)
             THEN <<[type |-> "missing_requirement",
                     resource_id |-> resource_id,
                     related_resource_id |-> related_id]>>
             ELSE <<>>
        ELSE <<>>

\* One pass of the body of "for rule in resource_rules": the violations the
\* rule adds for resource_id, given the whole list resource_ids.
rule_violations(resource_id, rule, resource_ids) ==
    LET related_id == rule.related_resource_id
    IN  IF rule.rule_type = "requires"
        THEN IF related_id # NULL /\ ~InSeq(related_id, resource_ids)
             THEN <<[type |-> "missing_requirement",
                     resource_id |-> resource_id,
                     related_resource_id |-> related_id]>>
             ELSE <<>>
        ELSE IF rule.rule_type = "excludes"
        THEN IF related_id # NULL /\ InSeq(related_id, resource_ids)
             THEN <<[type |-> "mutual_exclusion",
                     resource_id |-> resource_id,
                     related_resource_id |-> related_id]>>
             ELSE <<>>
        ELSE <<>>

RECURSIVE RuleLoop(_, _, _, _)
RuleLoop(resource_ids, resource_id, rs, k) ==
    IF k > Len(rs) THEN <<>>
    ELSE rule_violations(resource_id, rs[k], resource_ids)
            \o RuleLoop(resource_ids, resource_id, rs, k + 1)

RECURSIVE ResourceLoop(_, _, _)
ResourceLoop(resource_ids, rules, i) ==
    IF i > Len(resource_ids) THEN <<>>
    ELSE RuleLoop(resource_ids, resource_ids[i],
                  resource_rules(rules, resource_ids[i]), 1)
            \o ResourceLoop(resource_ids, rules, i + 1)

\* ConstraintService._validate_with_rules
validate_with_rules(resource_ids, rules) == ResourceLoop(resource_ids, rules, 1)

\* The "for row in results" loop of validate_resources and the validation of
\* the last group after it.
RECURSIVE GroupLoop(_, _, _, _, _, _)
GroupLoop(resource_ids, results, i, current_constraint, rules, violations) ==
    IF i > Len(results)
    THEN IF rules # <<>>
         THEN violations \o validate_with_rules(resource_ids, rules)
         ELSE violations
    ELSE LET row == results[i]
             rule == [resource_id         |-> row.resource_id,
                      rule_type           |-> row.rule_type,
                      related_resource_id |-> row.related_resource_id]
         IN  IF current_constraint # row.constraint_id
             THEN GroupLoop(resource_ids, results, i + 1, row.constraint_id,
                            <<rule>>,
                            IF current_constraint # NULL /\ rules # <<>>
                            THEN violations
                                    \o validate_with_rules(resource_ids, rules)
                            ELSE violations)
             ELSE GroupLoop(resource_ids, results, i + 1, current_constraint,
                            Append(rules, rule), violations)

\* Mutant: validation returns at the first violation found.
validate_resources_short_circuit(resource_ids) ==
    LET results == ActiveRuleRows
        violations == GroupLoop(resource_ids, results, 1, NULL, <<>>, <<>>)
    IN  IF results = <<>> \/ violations = <<>> THEN <<>>
        ELSE <<violations[1]>>

\* ConstraintService.validate_resources
\* A query of the rule store that raises leaves violations as it was
\* initialised, the empty list, and that list is returned.
validate_resources(resource_ids) ==
    IF "constraint_rules" \in fails THEN <<>>
    ELSE LET results == ActiveRuleRows
         IN  IF results = <<>> THEN <<>>
             ELSE GroupLoop(resource_ids, results, 1, NULL, <<>>, <<>>)

\* ---------------------------------------------- the stores, before any call
NoCheck == [called |-> FALSE]
NoValidation == [called |-> FALSE]

\* The record kept for a create-event operation.
NewRequest(app, resource_ids, date_list) ==
    [app          |-> app,
     resource_ids |-> resource_ids,
     date_list    |-> date_list,
     i            |-> 1,
     outcome      |-> "none",
     reported     |-> 0,
     created_ids  |-> <<>>,
     stale        |-> {}]

IdleCallers ==
    /\ pc = [c \in Callers |-> "idle"]
    /\ req = [c \in Callers |-> NewRequest("none", <<>>, <<>>)]
    /\ trace = [c \in Callers |-> <<>>]

\* Every store answers, no service call was made, no Resource object built.
NoResource == [constructed |-> FALSE]

NoService ==
    /\ fails = {}
    /\ svc = NoCheck
    /\ resource = NoResource

EmptyRules ==
    /\ constraints = <<>>
    /\ constraint_rules = <<>>

EmptyLedger ==
    /\ events = <<>>
    /\ event_resources = {}

\* ------------------------------------------------ event_service.py (store)
InsertRowCount == 1   \* cursor.rowcount of a one-row INSERT
AssignQuantity == 1   \* assign_resource_to_event(..., quantity = 1)

\* DatabaseConnection.execute_query for an INSERT that left the table as
\* evts: cursor.lastrowid, the id generated for the new row, is returned with
\* fetch = True, cursor.rowcount otherwise.
execute_insert(evts, fetch) == IF fetch THEN Len(evts) ELSE InsertRowCount

\* INSERT INTO event_resources ... ON DUPLICATE KEY UPDATE quantity_used.
Upsert(rows, event_id, resource_id, quantity_used) ==
    { x \in rows : ~(x.event_id = event_id /\ x.resource_id = resource_id) }
        \cup {[event_id |-> event_id, resource_id |-> resource_id,
               quantity_used |-> quantity_used]}

\* EventService.get_event returns an Event when the row exists and
\* Event.from_db_row accepts it: a row whose end_time is not after its
\* start_time raises ValueError in Event._validate, which get_event catches
\* and answers with None.
get_event_finds(evts, event_id) ==
    /\ event_id \in 1..Len(evts)
    /\ evts[event_id].end_time > evts[event_id].start_time

\* EventService.assign_resource_to_event against the events table evts: the
\* row is written only when get_event finds the event.
assign_resource_to_event(rows, evts, event_id, resource_id) ==
    IF get_event_finds(evts, event_id)
    THEN Upsert(rows, event_id, resource_id, AssignQuantity)
    ELSE rows

\* EventService._assign_resources_to_event
RECURSIVE assign_resources_to_event(_, _, _, _, _)
assign_resources_to_event(rows, evts, event_id, resource_ids, k) ==
    IF k > Len(resource_ids) THEN rows
    ELSE assign_resources_to_event(
             assign_resource_to_event(rows, evts, event_id, resource_ids[k]),
             evts, event_id, resource_ids, k + 1)

\* The row the INSERT INTO events writes for an Event with default status.
EventRow(window) ==
    [start_time |-> window[1], end_time |-> window[2], status |-> "scheduled"]

\* Event._validate: end_time <= start_time raises ValueError.
EventIsValid(window) == window[2] > window[1]

\* ------------------------------------------------------- cli/main.py
\* EventManagerApp._calculate_recurring_dates
calculate_recurring_dates(start_dt, end_dt, frequency, occurrences) ==
    LET step == IF frequency = "d" THEN DayLen
                ELSE IF frequency = "w" THEN WeekLen ELSE 0
    IN  [i \in 1..occurrences |-> <<start_dt + (i - 1) * step,
                                    end_dt + (i - 1) * step>>]

Busy(c) == pc[c] \in {"rules", "conflicts", "persist"}

\* Rows a caller in flight may still insert.
Pending(c) ==
    IF Busy(c) THEN Len(req[c].date_list) - Len(req[c].created_ids) ELSE 0

RECURSIVE SumPending(_)
SumPending(cs) ==
    IF cs = {} THEN 0
    ELSE LET c == CHOOSE x \in cs : TRUE IN Pending(c) + SumPending(cs \ {c})

\* After validation: the Event objects are built, all of them before the
\* first write; an invalid window raises and ends the operation.
AfterValidation(r) ==
    IF \A k \in 1..Len(r.date_list) : EventIsValid(r.date_list[k])
    THEN [r EXCEPT !.i = 1]
    ELSE [r EXCEPT !.outcome = "error"]

StageAfterValidation(r) ==
    IF \A k \in 1..Len(r.date_list) : EventIsValid(r.date_list[k])
    THEN "persist" ELSE "done"

\* create_event of cli/main.py up to the resource list: the inputs are read
\* and the windows of the occurrences computed.
CliStart(c, start, duration, frequency, occurrences, resource_ids) ==
    /\ ~Busy(c)
    /\ Len(events) + SumPending(Callers \ {c}) + occurrences <= MaxEvents
    /\ LET r == NewRequest("cli", resource_ids,
                           calculate_recurring_dates(start, start + duration,
                                                     frequency, occurrences))
       IN  /\ req' = [req EXCEPT ![c] =
                        IF resource_ids = <<>> THEN AfterValidation(r) ELSE r]
           /\ pc' = [pc EXCEPT ![c] =
                        IF resource_ids = <<>> THEN StageAfterValidation(r)
                        ELSE "rules"]
    /\ trace' = [trace EXCEPT ![c] = <<>>]
    /\ UNCHANGED <<ledgerVars, ruleVars, serviceVars, chk, mchk, slot, vres>>

\* "1. Reglas": validate_resources, once for the request.
CliRules(c) ==
    /\ pc[c] = "rules"
    /\ req[c].app = "cli"
    /\ LET violations == validate_resources(req[c].resource_ids)
       IN  IF violations # <<>>
           THEN /\ trace' = [trace EXCEPT ![c] = Append(@, "rules_bad")]
                /\ req' = [req EXCEPT ![c].outcome = "rejected_rules"]
                /\ pc' = [pc EXCEPT ![c] = "done"]
           ELSE /\ trace' = [trace EXCEPT ![c] = Append(@, "rules_ok")]
                /\ req' = req
                /\ pc' = [pc EXCEPT ![c] = "conflicts"]
    /\ UNCHANGED <<ledgerVars, ruleVars, serviceVars, chk, mchk, slot, vres>>

\* Mutant: the loop goes on to the next window after a conflict and the
\* operation is cancelled only after the last window.
CliConflict_no_return(c) ==
    /\ pc[c] = "conflicts"
    /\ req[c].app = "cli"
    /\ LET window == req[c].date_list[req[c].i]
           conflict == check_multiple_resources_conflict(
                           req[c].resource_ids, window[1], window[2], NULL)
           last == req[c].i = Len(req[c].date_list)
           bad == conflict.has_conflict \/ req[c].reported # 0
           r1 == IF conflict.has_conflict
                 THEN [req[c] EXCEPT !.reported = req[c].i] ELSE req[c]
       IN  /\ trace' = [trace EXCEPT ![c] =
                          Append(@, IF conflict.has_conflict
                                    THEN "check_bad" ELSE "check_ok")]
           /\ IF last /\ bad
              THEN /\ req' = [req EXCEPT ![c] =
                                [r1 EXCEPT !.outcome = "rejected_conflict"]]
                   /\ pc' = [pc EXCEPT ![c] = "done"]
              ELSE IF last
              THEN /\ req' = [req EXCEPT ![c] = AfterValidation(r1)]
                   /\ pc' = [pc EXCEPT ![c] = StageAfterValidation(r1)]
              ELSE /\ req' = [req EXCEPT ![c] = [r1 EXCEPT !.i = @ + 1]]
                   /\ pc' = pc
    /\ UNCHANGED <<ledgerVars, ruleVars, serviceVars, chk, mchk, slot, vres>>

\* Mutant: a conflict is printed but the return is missing, so the windows
\* after it are checked and the request goes on to be written.
CliConflict_falls_through(c) ==
    /\ pc[c] = "conflicts"
    /\ req[c].app = "cli"
    /\ LET window == req[c].date_list[req[c].i]
           conflict == check_multiple_resources_conflict(
                           req[c].resource_ids, window[1], window[2], NULL)
           r1 == IF conflict.has_conflict
                 THEN [req[c] EXCEPT !.reported = req[c].i,
                                     !.outcome = "rejected_conflict"]
                 ELSE req[c]
       IN  /\ trace' = [trace EXCEPT ![c] =
                          Append(@, IF conflict.has_conflict
                                    THEN "check_bad" ELSE "check_ok")]
           /\ IF req[c].i < Len(req[c].date_list)
              THEN /\ req' = [req EXCEPT ![c] = [r1 EXCEPT !.i = @ + 1]]
                   /\ pc' = pc
              ELSE /\ req' = [req EXCEPT ![c] = [r1 EXCEPT !.i = 1]]
                   /\ pc' = [pc EXCEPT ![c] = "persist"]
    /\ UNCHANGED <<ledgerVars, ruleVars, serviceVars, chk, mchk, slot, vres>>

\* "2. Conflictos por Fecha": one pass of the loop over date_list.  On a
\* conflict the number printed is i + 1 for the 0-based i of enumerate,
\* which is the 1-based position req[c].i.
CliConflict(c) ==
    /\ pc[c] = "conflicts"
    /\ req[c].app = "cli"
    /\ LET window == req[c].date_list[req[c].i]
           conflict == check_multiple_resources_conflict(
                           req[c].resource_ids, window[1], window[2], NULL)
       IN  IF conflict.has_conflict
           THEN /\ trace' = [trace EXCEPT ![c] = Append(@, "check_bad")]
                /\ req' = [req EXCEPT ![c].outcome = "rejected_conflict",
                                      ![c].reported = req[c].i]
                /\ pc' = [pc EXCEPT ![c] = "done"]
           ELSE /\ trace' = [trace EXCEPT ![c] = Append(@, "check_ok")]
                /\ IF req[c].i < Len(req[c].date_list)
                   THEN /\ req' = [req EXCEPT ![c].i = @ + 1]
                        /\ pc' = pc
                   ELSE /\ req' = [req EXCEPT ![c] = AfterValidation(@)]
                        /\ pc' = [pc EXCEPT ![c] = StageAfterValidation(req[c])]
    /\ UNCHANGED <<ledgerVars, ruleVars, serviceVars, chk, mchk, slot, vres>>

\* The allocations that the conflict check, run again now, reports for the
\* request and that share an instant with the window checked: bookings
\* written by others since the request was validated.
StaleRows(r) ==
    UNION { { [resource_id |-> r.resource_ids[n], event_id |-> row.event_id,
               at |-> IF row.start_time > r.date_list[k][1]
                      THEN row.start_time ELSE r.date_list[k][1]] :
              row \in { x \in ConflictRows(
                                  r.resource_ids[n], r.date_list[k][1],
                                  r.date_list[k][2], NULL) :
                          x.start_time < r.date_list[k][2]
                          /\ x.end_time > r.date_list[k][1] } } :
            n \in 1..Len(r.resource_ids), k \in 1..Len(r.date_list) }

\* EventService.create_batch_events, one event per step: the event row is
\* inserted under a fresh id and one unit of every listed resource is
\* assigned to it.
CliPersist(c) ==
    /\ pc[c] = "persist"
    /\ req[c].app = "cli"
    /\ LET window == req[c].date_list[req[c].i]
           evts == Append(events, EventRow(window))
           event_id == Len(evts)
           last == req[c].i = Len(req[c].date_list)
       IN  /\ events' = evts
           /\ event_resources' = assign_resources_to_event(
                                     event_resources, evts, event_id,
                                     req[c].resource_ids, 1)
           /\ req' = [req EXCEPT
                        ![c].created_ids = Append(@, event_id),
                        ![c].stale = IF req[c].i = 1 THEN StaleRows(req[c]) ELSE @,
                        ![c].i = @ + 1,
                        ![c].outcome = IF last THEN "created" ELSE @]
           /\ pc' = [pc EXCEPT ![c] = IF last THEN "done" ELSE "persist"]
    /\ trace' = [trace EXCEPT ![c] = Append(@, "insert")]
    /\ UNCHANGED <<quantity, now, ruleVars, serviceVars, chk, mchk, slot, vres>>

\* Time passes.
Tick ==
    /\ \E t \in Clock : t > now /\ now' = t
    /\ UNCHANGED <<quantity, events, event_resources, ruleVars, serviceVars, chk, mchk, slot,
                   vres, callVars>>

\* ----------------------------------------------------- workflow inputs
CallStarts    == {0, 1}
CallDurations == {0, 1, 3}
Frequencies   == {"d", "w"}
CallLists     == {<<>>, <<1>>, <<1, 2>>}

Rule(cid, rid, type, related) ==
    [constraint_id |-> cid, resource_id |-> rid, rule_type |-> type,
     related_resource_id |-> related]

WorkflowRules == {<<>>, <<Rule(1, 1, "requires", 2)>>}

Init ==
    /\ quantity = [r \in ResIds |-> r]
    /\ now = 0
    /\ EmptyLedger
    /\ constraints = [cid \in CIds |-> TRUE]
    /\ constraint_rules \in WorkflowRules
    /\ chk = NoCheck
    /\ mchk = NoCheck
    /\ slot = NoCheck
    /\ vres = NoValidation
    /\ IdleCallers
    /\ NoService

CliInput(c) ==
    \E s \in CallStarts, d \in CallDurations, ids \in CallLists :
        \/ CliStart(c, s, d, "none", 1, ids)
        \/ \E f \in Frequencies, n \in 1..MaxOcc : CliStart(c, s, d, f, n, ids)

CliStep(c) == CliRules(c) \/ CliConflict(c) \/ CliPersist(c)

\* Two callers, one create-event operation each, their steps interleaved.
Next ==
    \/ Tick
    \/ \E c \in Callers : (pc[c] = "idle" /\ CliInput(c)) \/ CliStep(c)

Spec == Init /\ [][Next]_vars

\* One caller: any sequence of create-event operations, none overlapping
\* another.
NextSingle == Tick \/ CliInput(1) \/ CliStep(1)

SpecSingle == Init /\ [][NextSingle]_vars

\* ----------------------------------------------------------- main.py
\* create_event of main.py up to the resource list: one window.
RootStart(c, start, duration, resource_ids) ==
    /\ ~Busy(c)
    /\ Len(events) + SumPending(Callers \ {c}) + 1 <= MaxEvents
    /\ LET r == NewRequest("root", resource_ids, <<<<start, start + duration>>>>)
       IN  /\ req' = [req EXCEPT ![c] =
                        IF resource_ids = <<>> THEN AfterValidation(r) ELSE r]
           /\ pc' = [pc EXCEPT ![c] =
                        IF resource_ids = <<>> THEN StageAfterValidation(r)
                        ELSE "conflicts"]
    /\ trace' = [trace EXCEPT ![c] = <<>>]
    /\ UNCHANGED <<ledgerVars, ruleVars, serviceVars, chk, mchk, slot, vres>>

\* "Verificando disponibilidad": the conflict check comes first.
RootConflict(c) ==
    /\ pc[c] = "conflicts"
    /\ req[c].app = "root"
    /\ LET window == req[c].date_list[1]
           conflict == check_multiple_resources_conflict(
                           req[c].resource_ids, window[1], window[2], NULL)
       IN  IF conflict.has_conflict
           THEN /\ trace' = [trace EXCEPT ![c] = Append(@, "check_bad")]
                /\ req' = [req EXCEPT ![c].outcome = "rejected_conflict"]
                /\ pc' = [pc EXCEPT ![c] = "done"]
           ELSE /\ trace' = [trace EXCEPT ![c] = Append(@, "check_ok")]
                /\ req' = req
                /\ pc' = [pc EXCEPT ![c] = "rules"]
    /\ UNCHANGED <<ledgerVars, ruleVars, serviceVars, chk, mchk, slot, vres>>

\* validate_resources, after the conflict check has passed.
RootRules(c) ==
    /\ pc[c] = "rules"
    /\ req[c].app = "root"
    /\ LET violations == validate_resources(req[c].resource_ids)
       IN  IF violations # <<>>
           THEN /\ trace' = [trace EXCEPT ![c] = Append(@, "rules_bad")]
                /\ req' = [req EXCEPT ![c].outcome = "rejected_rules"]
                /\ pc' = [pc EXCEPT ![c] = "done"]
           ELSE /\ trace' = [trace EXCEPT ![c] = Append(@, "rules_ok")]
                /\ req' = [req EXCEPT ![c] = AfterValidation(@)]
                /\ pc' = [pc EXCEPT ![c] = StageAfterValidation(req[c])]
    /\ UNCHANGED <<ledgerVars, ruleVars, serviceVars, chk, mchk, slot, vres>>

\* EventService.create_event: the INSERT is run without fetch, so the value
\* taken as the id of the event is the row count of the INSERT; the
\* resources are assigned under that id.
RootPersist(c) ==
    /\ pc[c] = "persist"
    /\ req[c].app = "root"
    /\ LET evts == Append(events, EventRow(req[c].date_list[1]))
           event_id == execute_insert(evts, FALSE)
       IN  /\ events' = evts
           /\ event_resources' = assign_resources_to_event(
                                     event_resources, evts, event_id,
                                     req[c].resource_ids, 1)
           /\ req' = [req EXCEPT ![c].created_ids = <<event_id>>,
                                 ![c].outcome = "created"]
           /\ pc' = [pc EXCEPT ![c] = "done"]
    /\ trace' = [trace EXCEPT ![c] = Append(@, "insert")]
    /\ UNCHANGED <<quantity, now, ruleVars, serviceVars, chk, mchk, slot, vres>>

NextRoot ==
    \/ Tick
    \/ \E s \in CallStarts, d \in CallDurations, ids \in CallLists :
         RootStart(1, s, d, ids)
    \/ RootConflict(1)
    \/ RootRules(1)
    \/ RootPersist(1)

SpecRoot == Init /\ [][NextRoot]_vars

\* ----------------------------------------------------- claims: workflow
\* The units of a resource held at instant t by scheduled events.
UsageAt(resource_id, t) ==
    SumUsed({ er \in event_resources :
                /\ er.resource_id = resource_id
                /\ events[er.event_id].status = "scheduled"
                /\ events[er.event_id].start_time <= t
                /\ t < events[er.event_id].end_time })

\* Usage changes only where an event starts.
Instants == { events[i].start_time : i \in 1..Len(events) }

Count(s, x) == Cardinality({k \in 1..Len(s) : s[k] = x})

\* C3: with a single caller, after any sequence of create-event operations,
\* at every instant the quantity of a resource held by scheduled events is
\* at most the quantity of the resource.
C3_NeverOverCommitted ==
    \A r \in ResIds, t \in Instants : UsageAt(r, t) <= quantity[r]

ValidatedPrefix(c) ==
    /\ Len(trace[c]) >= Len(req[c].date_list) + 1
    /\ trace[c][1] = "rules_ok"
    /\ \A k \in 2..(Len(req[c].date_list) + 1) : trace[c][k] = "check_ok"

\* C5: if the rules are violated or the check of any occurrence reports a
\* conflict, no event and no allocation is written for any occurrence; the
\* first write comes only after every occurrence has passed validation.
C5_AllOrNothing ==
    \A c \in Callers :
        /\ req[c].outcome \in {"rejected_rules", "rejected_conflict"}
            => (req[c].created_ids = <<>> /\ Count(trace[c], "insert") = 0)
        /\ (Count(trace[c], "rules_bad") + Count(trace[c], "check_bad") > 0)
            => (req[c].created_ids = <<>> /\ Count(trace[c], "insert") = 0)
        /\ (req[c].resource_ids # <<>> /\ Count(trace[c], "insert") > 0)
            => /\ ValidatedPrefix(c)
               /\ \A k \in (Len(req[c].date_list) + 2)..Len(trace[c]) :
                      trace[c][k] = "insert"
        /\ Len(req[c].created_ids) = Count(trace[c], "insert")

C5_Witness ==
    \E c \in Callers :
        /\ req[c].outcome = "rejected_conflict"
        /\ Len(req[c].date_list) = 2
        /\ trace[c] = <<"rules_ok", "check_ok", "check_bad">>
        /\ req[c].created_ids = <<>>

\* The checks of a request, in the order made.
Checks(c) == SelectSeq(trace[c], LAMBDA x : x \in {"check_ok", "check_bad"})

\* C6 as claimed: the number reported on rejection is the 0-based index of
\* the first window in conflict.
C6_ZeroBasedIndex ==
    \A c \in Callers :
        (req[c].app = "cli" /\ req[c].outcome = "rejected_conflict")
        => /\ Checks(c)[Len(Checks(c))] = "check_bad"
           /\ Count(trace[c], "check_bad") = 1
           /\ req[c].reported = Len(Checks(c)) - 1

\* C6: the windows are checked in list order and the request is rejected at
\* the first window in conflict: every window before it was checked and
\* passed, no window after it is checked, and the number reported is the
\* 1-based position of that window (its 0-based index plus one).
C6_FirstConflictReported ==
    \A c \in Callers :
        (req[c].app = "cli" /\ req[c].outcome = "rejected_conflict")
        => LET n == Len(Checks(c))
           IN  /\ n \in 1..Len(req[c].date_list)
               /\ trace[c] = <<"rules_ok">> \o Checks(c)
               /\ \A k \in 1..(n - 1) : Checks(c)[k] = "check_ok"
               /\ Checks(c)[n] = "check_bad"
               /\ req[c].reported = n
               /\ req[c].i = n

C6_Witness ==
    \E c \in Callers :
        /\ req[c].app = "cli" /\ req[c].outcome = "rejected_conflict"
        /\ Len(req[c].date_list) = 2
        /\ req[c].reported = 2

\* C7: for a non-empty resource list validate_resources runs exactly once
\* and before any conflict check; when it returns a violation no conflict
\* check is run.
C7_RulesOnceBeforeChecks ==
    \A c \in Callers :
        LET rules == Count(trace[c], "rules_ok") + Count(trace[c], "rules_bad")
        IN  /\ rules <= 1
            /\ Checks(c) # <<>> => trace[c][1] = "rules_ok"
            /\ Count(trace[c], "rules_bad") > 0 => Checks(c) = <<>>
            /\ (pc[c] = "done" /\ req[c].resource_ids # <<>>) => rules = 1

\* ------------------------------------------ direct conflict checks (ledger)
\* One drawn ledger row: an event and the one resource assigned to it.
\* Every allocation is written by assign_resource_to_event with its default
\* quantity; an event that is not scheduled is cancelled or completed, which
\* the query does not tell apart.
LedgerStatuses == {"scheduled", "cancelled"}

LedgerRows ==
    [start_time : Starts, duration : Durations, status : LedgerStatuses,
     resource_id : ResIds, quantity_used : {AssignQuantity}]

\* The tables events and event_resources holding the given bookings, one
\* event per booking, with ids in list order.
LedgerHolds(rows) ==
    /\ events = [i \in 1..Len(rows) |->
                   [start_time |-> rows[i].start_time,
                    end_time   |-> rows[i].start_time + rows[i].duration,
                    status     |-> rows[i].status]]
    /\ event_resources =
           { [event_id |-> i, resource_id |-> rows[i].resource_id,
              quantity_used |-> rows[i].quantity_used] : i \in 1..Len(rows) }

InitLedger ==
    /\ quantity \in {[r \in ResIds |-> q] : q \in Quantities}
    /\ now \in Clock
    /\ \E rows \in SeqsUpTo(LedgerRows, MaxRows) : LedgerHolds(rows)
    /\ EmptyRules
    /\ chk = NoCheck
    /\ mchk = NoCheck
    /\ slot = NoCheck
    /\ vres = NoValidation
    /\ IdleCallers
    /\ NoService

\* A call of ConflictChecker.check_resource_conflict.
CheckCall(resource_id, start_time, end_time, exclude_event_id) ==
    /\ chk' = [called           |-> TRUE,
               resource_id      |-> resource_id,
               start_time       |-> start_time,
               end_time         |-> end_time,
               exclude_event_id |-> exclude_event_id,
               result           |-> check_resource_conflict(
                                       resource_id, start_time, end_time,
                                       exclude_event_id)]
    /\ UNCHANGED <<ledgerVars, ruleVars, serviceVars, mchk, slot, vres, callVars>>

\* Ids a caller can pass that name no row of the resources table.
UnknownResIds == {3}

\* A check reads the tables and writes nothing: one check is followed.
NextLedger ==
    /\ ~chk.called
    /\ \E r \in ResIds \cup UnknownResIds, s \in ReqStarts, e \in ReqEnds,
          x \in 0..MaxRows :
           CheckCall(r, s, e, x)

SpecLedger == InitLedger /\ [][NextLedger]_vars

\* ------------------------------------------------------- claims: ledger
\* Half-open interval intersection of [s, e) with the window of event ev.
Overlaps(ev, s, e) == ev.start_time < e /\ ev.end_time > s

\* The allocations of scheduled events of a resource that overlap [s, e).
OverlappingAllocations(resource_id, s, e, exclude_event_id) ==
    { er \in event_resources :
        /\ er.resource_id = resource_id
        /\ events[er.event_id].status = "scheduled"
        /\ Overlaps(events[er.event_id], s, e)
        /\ er.event_id # exclude_event_id }

NeededQuantity == AssignQuantity

\* C1: check_resource_conflict reports a conflict if and only if the needed
\* quantity exceeds the total capacity of the resource minus the sum of
\* quantity_used over the overlapping scheduled allocations.
C1_ConflictIffOverCapacity ==
    (chk.called /\ chk.resource_id \in DOMAIN quantity) =>
        (chk.result.has_conflict <=>
            NeededQuantity > quantity[chk.resource_id]
                - SumUsed(OverlappingAllocations(chk.resource_id, chk.start_time,
                                                 chk.end_time, chk.exclude_event_id)))

\* C2: an allocation whose window does not intersect the requested window
\* under half-open semantics (a window that only touches it included) never
\* appears in the conflict list and never causes a conflict.
C2_DisjointNeverCounts ==
    chk.called =>
        \A k \in 1..Len(chk.result.conflicts) :
            LET d == chk.result.conflicts[k]
            IN  d.existing_start < chk.end_time /\ d.existing_end > chk.start_time

\* C14: check_resource_conflict for a resource id that is not in the
\* resource store reports a conflict, even when no allocation names the id.
C14_UnknownResourceConflicts ==
    (chk.called /\ chk.resource_id \notin DOMAIN quantity) =>
        chk.result.has_conflict

\* The ids of the events in the conflict list of the last call.
ConflictEventIds ==
    {chk.result.conflicts[k].event_id : k \in 1..Len(chk.result.conflicts)}

\* C15: on a conflict the detail carries the name of the resource and an
\* available quantity equal to the capacity minus the current usage, and the
\* conflicting allocations are exactly the scheduled allocations that
\* overlap the requested window.
C15_ConflictDetail ==
    (chk.called /\ chk.resource_id \in DOMAIN quantity
        /\ chk.result.has_conflict) =>
        /\ \A k \in 1..Len(chk.result.conflicts) :
              LET d == chk.result.conflicts[k]
              IN  /\ {"resource_name", "available"} \subseteq DOMAIN d
                  /\ d.available =
                        quantity[chk.resource_id]
                        - SumUsed(OverlappingAllocations(
                                      chk.resource_id, chk.start_time,
                                      chk.end_time, chk.exclude_event_id))
        /\ ConflictEventIds =
              {er.event_id : er \in OverlappingAllocations(
                                        chk.resource_id, chk.start_time,
                                        chk.end_time, chk.exclude_event_id)}

\* C16: with exclude_event_id given, the allocations of the excluded event
\* neither decide the conflict nor appear in the list, and those of every
\* other event are treated as they are without the exclusion.
C16_ExcludedEvent ==
    (chk.called /\ chk.exclude_event_id # NULL) =>
        LET plain == check_resource_conflict(chk.resource_id, chk.start_time,
                                             chk.end_time, NULL)
            others == SelectSeq(plain.conflicts,
                                LAMBDA d : d.event_id # chk.exclude_event_id)
        IN  /\ chk.result.conflicts = others
            /\ chk.result.has_conflict <=> others # <<>>
            /\ chk.exclude_event_id \notin ConflictEventIds

C16_Witness ==
    /\ chk.called /\ chk.exclude_event_id # NULL
    /\ Len(check_resource_conflict(chk.resource_id, chk.start_time,
                                   chk.end_time, NULL).conflicts) = 2
    /\ Len(chk.result.conflicts) = 1
    /\ chk.result.has_conflict

\* C17: an allocation that overlaps the requested window and is not excluded
\* contributes if and only if its event is scheduled, whatever the clock
\* time is relative to the end of the event.
C17_ScheduledOnly ==
    chk.called =>
        \A er \in event_resources :
            (/\ er.resource_id = chk.resource_id
             /\ Overlaps(events[er.event_id], chk.start_time, chk.end_time)
             /\ er.event_id # chk.exclude_event_id)
            => (er.event_id \in ConflictEventIds
                    <=> events[er.event_id].status = "scheduled")

\* ------------------------------ direct multi-resource checks (ledger)
InitMulti ==
    /\ quantity = [r \in ResIds |-> AssignQuantity]
    /\ now \in Clock
    /\ \E rows \in SeqsUpTo(LedgerRows, MaxRows) : LedgerHolds(rows)
    /\ EmptyRules
    /\ chk = NoCheck
    /\ mchk = NoCheck
    /\ slot = NoCheck
    /\ vres = NoValidation
    /\ IdleCallers
    /\ NoService

\* A call of ConflictChecker.check_multiple_resources_conflict.
MultiCall(resource_ids, start_time, end_time, exclude_event_id) ==
    /\ mchk' = [called           |-> TRUE,
                resource_ids     |-> resource_ids,
                start_time       |-> start_time,
                end_time         |-> end_time,
                exclude_event_id |-> exclude_event_id,
                result           |-> check_multiple_resources_conflict(
                                        resource_ids, start_time, end_time,
                                        exclude_event_id)]
    /\ UNCHANGED <<ledgerVars, ruleVars, serviceVars, chk, slot, vres, callVars>>

NextMulti ==
    /\ ~mchk.called
    /\ \E ids \in SeqsUpTo(ResIds, MaxLen), s \in ReqStarts, e \in ReqEnds :
           MultiCall(ids, s, e, NULL)

SpecMulti == InitMulti /\ [][NextMulti]_vars

\* The check of the resource at position i of the list of the last call.
SingleCheck(i) ==
    check_resource_conflict(mchk.resource_ids[i], mchk.start_time,
                            mchk.end_time, mchk.exclude_event_id)

ConflictingPositions ==
    {i \in 1..Len(mchk.resource_ids) : SingleCheck(i).has_conflict}

\* The details of the conflicting resources from position i on, in list order.
RECURSIVE DetailsFrom(_)
DetailsFrom(i) ==
    IF i > Len(mchk.resource_ids) THEN <<>>
    ELSE (IF SingleCheck(i).has_conflict THEN SingleCheck(i).conflicts ELSE <<>>)
            \o DetailsFrom(i + 1)

\* C18: check_multiple_resources_conflict checks every id of the list:
\* has_conflict holds iff some resource conflicts, conflicting_resources is
\* the list of the ids whose own check conflicts, conflicts is the
\* concatenation of their details, total_resources_checked is the length of
\* the list and conflicting_count the number of conflicting entries.
C18_Aggregate ==
    mchk.called =>
        /\ mchk.result.has_conflict <=> ConflictingPositions # {}
        /\ mchk.result.conflicting_resources
              = SelectSeq(mchk.resource_ids,
                          LAMBDA r : check_resource_conflict(
                                         r, mchk.start_time, mchk.end_time,
                                         mchk.exclude_event_id).has_conflict)
        /\ mchk.result.conflicts = DetailsFrom(1)
        /\ mchk.result.total_resources_checked = Len(mchk.resource_ids)
        /\ mchk.result.conflicting_count = Cardinality(ConflictingPositions)

C18_Witness ==
    /\ mchk.called
    /\ Len(mchk.resource_ids) = 2
    /\ mchk.resource_ids[1] # mchk.resource_ids[2]
    /\ ConflictingPositions = {1, 2}
    /\ mchk.result.conflicting_count = 2
    /\ Len(mchk.result.conflicts) = 2

\* ------------------------------------------ direct slot searches (ledger)
\* Bookings in hours: an hour at 08:00 or 10:00 of day 0, or a booking from
\* then to past the working span of the last day a search looks at.
SlotStarts    == {8, 10}
SlotDurations == {1, HoursPerDay * MaxDays}
SlotLists     == {<<1>>, <<1, 2>>}

SlotRows ==
    [start_time : SlotStarts, duration : SlotDurations, status : {"scheduled"},
     resource_id : ResIds, quantity_used : {AssignQuantity}]

InitSlot ==
    /\ quantity = [r \in ResIds |-> AssignQuantity]
    /\ now = 0
    /\ \E rows \in SeqsUpTo(SlotRows, MaxRows) : LedgerHolds(rows)
    /\ EmptyRules
    /\ chk = NoCheck
    /\ mchk = NoCheck
    /\ slot = NoCheck
    /\ vres = NoValidation
    /\ IdleCallers
    /\ NoService

\* A call of ConflictChecker.find_available_time_slot.
SlotCall(resource_ids, desired_start, desired_end, duration_hours, max_days_ahead, exclude_event_id) ==
    /\ LET found == find_available_time_slot(
                        resource_ids, desired_start, desired_end,
                        duration_hours, max_days_ahead, exclude_event_id)
       IN  slot' = [called           |-> TRUE,
                    resource_ids     |-> resource_ids,
                    desired_start    |-> desired_start,
                    desired_end      |-> desired_end,
                    duration_hours   |-> duration_hours,
                    max_days_ahead   |-> max_days_ahead,
                    exclude_event_id |-> exclude_event_id,
                    result           |-> found.result,
                    checks           |-> found.checks]
    /\ UNCHANGED <<ledgerVars, ruleVars, serviceVars, chk, mchk, vres, callVars>>

\* A search reads the tables and writes nothing: one search is followed.
NextSlot ==
    /\ ~slot.called
    /\ \E ids \in SlotLists, s \in SlotStarts, d \in {1, 2},
          m \in 0..MaxDays, x \in {NULL, 1} :
           SlotCall(ids, s, s + 1, d, m, x)

SpecSlot == InitSlot /\ [][NextSlot]_vars

\* The multi-resource check of the last search finds the window free.
SlotFree(start_time, end_time) ==
    ~check_multiple_resources_conflict(slot.resource_ids, start_time, end_time,
                                       slot.exclude_event_id).has_conflict

\* The candidate windows of the last search, numbered in probe order.
HoursTried == LastHour - FirstHour + 1

Probes == 1..(HoursTried * slot.max_days_ahead)

ProbeDay(n) == (n - 1) \div HoursTried

ProbeHour(n) == FirstHour + ((n - 1) % HoursTried)

ProbeStart(n) ==
    (DateOf(slot.desired_start) + ProbeDay(n)) * HoursPerDay + ProbeHour(n)

ProbeFree(n) == SlotFree(ProbeStart(n), ProbeStart(n) + slot.duration_hours)

\* The first free candidate from number n on; 0 when there is none.
RECURSIVE FirstFreeFrom(_)
FirstFreeFrom(n) ==
    IF n \notin Probes THEN 0
    ELSE IF ProbeFree(n) THEN n
    ELSE FirstFreeFrom(n + 1)

C20_ExhaustedSearch ==
    slot.called =>
        /\ slot.checks <= 1 + HoursTried * slot.max_days_ahead
        /\ (slot.result.available /\ slot.result.reason = "candidate")
              => slot.result.days_offset < slot.max_days_ahead
        /\ (~SlotFree(slot.desired_start, slot.desired_end)
              /\ \A n \in Probes : ~ProbeFree(n))
              => /\ slot.checks = 1 + HoursTried * slot.max_days_ahead
                 /\ ~slot.result.available
                 /\ slot.result.max_days_checked = slot.max_days_ahead

C20_Witness ==
    /\ slot.called
    /\ slot.max_days_ahead = MaxDays
    /\ ~slot.result.available
    /\ slot.checks = 1 + HoursTried * MaxDays
    /\ slot.result.max_days_checked = MaxDays

\* C25: an event created through create_event carries the id the store
\* generated for the inserted row, and its resources are recorded under
\* that id.
C25_GeneratedId ==
    \A c \in Callers :
        (req[c].app = "root" /\ req[c].outcome = "created") =>
            /\ req[c].created_ids = <<Len(events)>>
            /\ \A k \in 1..Len(req[c].resource_ids) :
                   \E x \in event_resources :
                       /\ x.event_id = Len(events)
                       /\ x.resource_id = req[c].resource_ids[k]

\* C28: when the desired window is not conflict-free, a window returned
\* with available = true starts no earlier than desired_start.
C28_SearchMovesForward ==
    (/\ slot.called
     /\ ~SlotFree(slot.desired_start, slot.desired_end)
     /\ slot.result.available)
    => slot.result.start_time >= slot.desired_start

\* C29: in the details of a conflict check, a booking that only touches
\* the requested window at an endpoint is typed 'adjacent', 'overlap' is
\* given only to windows that share more than an endpoint, and no detail is
\* typed 'unknown'.
C29_ConflictTypes ==
    chk.called =>
        \A k \in 1..Len(chk.result.conflicts) :
            LET d == chk.result.conflicts[k]
                touching == \/ chk.end_time = d.existing_start
                            \/ chk.start_time = d.existing_end
            IN  /\ touching => d.conflict_type = "adjacent"
                /\ d.conflict_type = "overlap" =>
                       /\ chk.start_time < d.existing_end
                       /\ chk.end_time > d.existing_start
                /\ d.conflict_type # "unknown"

\* ------------------------------------------- event service calls (service)
\* The resource ids get_event reads for an event, in ascending order.
RECURSIVE Ascending(_)
Ascending(ids) ==
    IF ids = {} THEN <<>>
    ELSE LET least == CHOOSE x \in ids : \A y \in ids : x <= y
         IN  <<least>> \o Ascending(ids \ {least})

ResourceIdsOf(rows, event_id) ==
    Ascending({x.resource_id : x \in {y \in rows : y.event_id = event_id}})

\* EventService.remove_resource_from_event: the DELETE.
remove_resource_from_event(rows, event_id, resource_id) ==
    { x \in rows : ~(x.event_id = event_id /\ x.resource_id = resource_id) }

\* EventService._update_event_resources: the ids not yet assigned are
\* assigned, then the assigned ids that are not in the new list are removed.
RECURSIVE AddLoop(_, _, _, _, _, _)
AddLoop(rows, evts, event_id, new_resource_ids, current_ids, k) ==
    IF k > Len(new_resource_ids) THEN rows
    ELSE AddLoop(IF InSeq(new_resource_ids[k], current_ids) THEN rows
                 ELSE assign_resource_to_event(rows, evts, event_id,
                                               new_resource_ids[k]),
                 evts, event_id, new_resource_ids, current_ids, k + 1)

RECURSIVE RemoveLoop(_, _, _, _, _)
RemoveLoop(rows, event_id, new_resource_ids, current_ids, k) ==
    IF k > Len(current_ids) THEN rows
    ELSE RemoveLoop(IF InSeq(current_ids[k], new_resource_ids) THEN rows
                    ELSE remove_resource_from_event(rows, event_id,
                                                    current_ids[k]),
                    event_id, new_resource_ids, current_ids, k + 1)

update_event_resources(rows, evts, event_id, new_resource_ids) ==
    LET current_ids == ResourceIdsOf(rows, event_id)
    IN  RemoveLoop(AddLoop(rows, evts, event_id, new_resource_ids,
                           current_ids, 1),
                   event_id, new_resource_ids, current_ids, 1)

\* update_event: allowed_fields.
allowed_fields == {"title", "description", "start_time", "end_time", "status"}

\* The row of events after "UPDATE events SET <fields> WHERE id = %s"; the
\* model keeps no title or description column.
UpdatedRow(row, updates, fields) ==
    [f \in DOMAIN row |-> IF f \in fields THEN updates[f] ELSE row[f]]

\* EventService.update_event on the tables evts and rows.  updates is the
\* dictionary, a function from its keys; no caller passes a None value.
\* The UPDATE names updated_at, so it affects the row whenever it is sent.
update_event(evts, rows, event_id, updates) ==
    LET fields == DOMAIN updates \cap allowed_fields
        evts1 == [evts EXCEPT ![event_id] = UpdatedRow(@, updates, fields)]
    IN  IF ~get_event_finds(evts, event_id) \/ fields = {}
        THEN [result |-> FALSE, events |-> evts, event_resources |-> rows]
        ELSE [result |-> TRUE,
              events |-> evts1,
              event_resources |->
                  IF "resource_ids" \in DOMAIN updates
                  THEN update_event_resources(rows, evts1, event_id,
                                              updates["resource_ids"])
                  ELSE rows]

\* EventService.cancel_event, which event_service.py does not define: the
\* event is read, an unknown or already cancelled event answers False,
\* otherwise the status is set to 'cancelled' and the action is logged.
cancel_event(evts, rows, event_id) ==
    IF ~get_event_finds(evts, event_id) THEN
        [result |-> FALSE, events |-> evts, event_resources |-> rows]
    ELSE IF evts[event_id].status = "cancelled" THEN
        [result |-> FALSE, events |-> evts, event_resources |-> rows]
    ELSE [result |-> TRUE,
          events |-> [evts EXCEPT ![event_id].status = "cancelled"],
          event_resources |-> rows]

\* The empty dictionary, and a dictionary extended when the flag holds.
NoUpdates == [f \in {} |-> NULL]

With(updates, flag, more) == IF flag THEN more @@ updates ELSE updates

\* The record of a call: what was asked, what was answered, and the tables
\* as they were before it.
ServiceCall(op, event_id, updates, r) ==
    [called |-> TRUE, op |-> op, event_id |-> event_id, updates |-> updates,
     result |-> r.result, events_before |-> events,
     event_resources_before |-> event_resources]

Unanswered == [result |-> FALSE, events |-> events,
               event_resources |-> event_resources]

\* edit_event_ui: an input is a sequence, empty for ENTER.  The new window
\* and the new resources are checked with the event itself excluded, then
\* the changes go to update_event.
EditEventUi(event_id, title, start, duration, res) ==
    LET found == get_event_finds(events, event_id)
        event == events[event_id]
        curr_duration == event.end_time - event.start_time
        new_start_time == IF start # <<>> THEN start[1] ELSE event.start_time
        times_changed == start # <<>> \/ duration # <<>>
        dur == IF duration # <<>> THEN duration[1] ELSE curr_duration
        new_end_time == IF times_changed THEN new_start_time + dur
                        ELSE event.end_time
        resources_changed == res # <<>>
        new_resource_ids == IF resources_changed THEN res[1]
                            ELSE ResourceIdsOf(event_resources, event_id)
        conflict == check_multiple_resources_conflict(
                        new_resource_ids, new_start_time, new_end_time,
                        event_id)
        violations == validate_resources(new_resource_ids)
        updates == With(With(With(NoUpdates, title # <<>>,
                                  "title" :> "new"),
                             times_changed,
                             "start_time" :> new_start_time
                                 @@ "end_time" :> new_end_time),
                        resources_changed,
                        "resource_ids" :> new_resource_ids)
        r == IF ~found THEN Unanswered
             ELSE IF event.status = "cancelled" THEN Unanswered
             ELSE IF (times_changed \/ resources_changed)
                     /\ (conflict.has_conflict \/ violations # <<>>)
                  THEN Unanswered
             ELSE IF DOMAIN updates = {} THEN Unanswered
             ELSE update_event(events, event_resources, event_id, updates)
    IN  /\ svc' = ServiceCall("edit_event_ui", event_id,
                              IF found THEN updates ELSE NoUpdates, r)
        /\ events' = r.events
        /\ event_resources' = r.event_resources
        /\ UNCHANGED <<quantity, now, ruleVars, fails, resource, chk, mchk,
                       slot, vres, callVars>>

\* A direct call of update_event.
UpdateEventCall(event_id, updates) ==
    LET r == update_event(events, event_resources, event_id, updates)
    IN  /\ svc' = ServiceCall("update_event", event_id, updates, r)
        /\ events' = r.events
        /\ event_resources' = r.event_resources
        /\ UNCHANGED <<quantity, now, ruleVars, fails, resource, chk, mchk,
                       slot, vres, callVars>>

\* cancel_event_ui: the id goes to cancel_event.
CancelEventCall(event_id) ==
    LET r == cancel_event(events, event_resources, event_id)
    IN  /\ svc' = ServiceCall("cancel_event", event_id, NoUpdates, r)
        /\ events' = r.events
        /\ event_resources' = r.event_resources
        /\ UNCHANGED <<quantity, now, ruleVars, fails, resource, chk, mchk,
                       slot, vres, callVars>>

\* The bookings the service starts from: written by create-event, so every
\* window is valid.
ServiceRows ==
    [start_time : {1}, duration : {1}, status : LedgerStatuses,
     resource_id : ResIds, quantity_used : {AssignQuantity}]

InitService ==
    /\ quantity = [r \in ResIds |-> AssignQuantity]
    /\ now = 0
    /\ \E rows \in SeqsUpTo(ServiceRows, MaxRows) : LedgerHolds(rows)
    /\ EmptyRules
    /\ chk = NoCheck
    /\ mchk = NoCheck
    /\ slot = NoCheck
    /\ vres = NoValidation
    /\ IdleCallers
    /\ NoService

\* The answers at the edit menu, and the dictionaries passed to update_event.
EditStarts == {<<>>, <<3>>}
EditDurations == {<<>>, <<0>>}
EditResources == {<<>>, <<<<>>>>, <<<<1, 2>>>>}
UpdateResources == {<<>>, <<2>>, <<1, 2>>}

UpdateDicts ==
    { With(With(With(NoUpdates, t, "title" :> "new"),
                e, "end_time" :> 2),
           ids # <<>>, "resource_ids" :> ids[1]) :
      t \in BOOLEAN, e \in BOOLEAN,
      ids \in {<<>>} \cup {<<u>> : u \in UpdateResources} }

\* No call of the service was followed yet.
NoCallYet == IF svc.called THEN svc.op = "edit_event_ui" ELSE TRUE

\* At most one edit at the menu, then one call of the service.
NextService ==
    \/ /\ ~svc.called
       /\ \E id \in 1..(MaxRows + 1), t \in {<<>>, <<"new">>},
             s \in EditStarts, d \in EditDurations, r \in EditResources :
               EditEventUi(id, t, s, d, r)
    \/ /\ NoCallYet
       /\ \E id \in 1..(MaxRows + 1), u \in UpdateDicts :
               UpdateEventCall(id, u)
    \/ /\ NoCallYet
       /\ \E id \in 1..(MaxRows + 1) : CancelEventCall(id)

SpecService == InitService /\ [][NextService]_vars

\* C24: after an edit at the menu, every persisted event has end_time
\* strictly after start_time.
C24_PersistedWindowsValid ==
    (svc.called /\ svc.op = "edit_event_ui") =>
        \A i \in 1..Len(events) : events[i].end_time > events[i].start_time

\* The event the last call named was a row of events before the call.
CalledOnExisting == svc.event_id \in 1..Len(svc.events_before)

\* No conflict check counts an allocation of the event.
NeverCounted(event_id) ==
    \A r \in ResIds, s \in Starts, e \in Starts :
        \A row \in ConflictRows(r, s, e, NULL) : row.event_id # event_id

\* C26: cancel_event on an existing event with status 'scheduled' returns
\* True and leaves it 'cancelled', its allocations counted by no conflict
\* check; on an unknown id or a cancelled event it returns False and both
\* tables are as they were.
C26_CancelEvent ==
    (svc.called /\ svc.op = "cancel_event") =>
        IF CalledOnExisting
           /\ svc.events_before[svc.event_id].status = "scheduled"
        THEN /\ svc.result
             /\ events[svc.event_id].status = "cancelled"
             /\ NeverCounted(svc.event_id)
        ELSE /\ ~svc.result
             /\ events = svc.events_before
             /\ event_resources = svc.event_resources_before

\* C27: update_event on an existing event with 'resource_ids' among the
\* updates returns True, and afterwards the resources assigned to the event
\* are exactly those of the list, also when 'resource_ids' is the only key.
C27_UpdateResources ==
    (/\ svc.called
     /\ svc.op = "update_event"
     /\ CalledOnExisting
     /\ "resource_ids" \in DOMAIN svc.updates)
    => /\ svc.result
       /\ { x.resource_id : x \in { y \in event_resources :
                                      y.event_id = svc.event_id } }
          = { svc.updates["resource_ids"][k] :
                k \in 1..Len(svc.updates["resource_ids"]) }

\* ------------------------------------------- Resource objects (resource)
\* Resource._validate, for a Resource with a name and a known type.
ResourceIsValid(q, usage) == ~(q < 0) /\ ~(usage < 0) /\ ~(usage > q)

Max(a, b) == IF a >= b THEN a ELSE b

\* Resource.available_quantity
available_quantity(res) ==
    IF ~res.is_active THEN 0
    ELSE Max(0, res.quantity - res.current_usage)

\* Resource.is_available
is_available(res, required_quantity) ==
    res.is_active /\ available_quantity(res) >= required_quantity

\* The record of the last method call on the object.
MethodCall(op, n, returned) ==
    [op |-> op, n |-> n, returned |-> returned,
     usage_before |-> resource.current_usage]

\* Resource.__init__: an object exists only when _validate has not raised.
Construct(q, usage, active) ==
    /\ ~resource.constructed
    /\ ResourceIsValid(q, usage)
    /\ resource' = [constructed |-> TRUE, quantity |-> q,
                    current_usage |-> usage, is_active |-> active,
                    last |-> [op |-> "init"]]
    /\ UNCHANGED <<ledgerVars, ruleVars, fails, svc, chk, mchk, slot, vres,
                   callVars>>

\* The calls followed are those made while the usage is within MaxUsage of
\* zero.
InReach == IF resource.constructed
           THEN resource.current_usage \in -MaxUsage..MaxUsage
           ELSE FALSE

\* Resource.use
Use(n) ==
    /\ InReach
    /\ resource' =
           IF is_available(resource, n)
           THEN [resource EXCEPT !.current_usage = @ + n,
                                 !.last = MethodCall("use", n, TRUE)]
           ELSE [resource EXCEPT !.last = MethodCall("use", n, FALSE)]
    /\ UNCHANGED <<ledgerVars, ruleVars, fails, svc, chk, mchk, slot, vres,
                   callVars>>

\* Resource.release, which returns None.
Release(n) ==
    /\ InReach
    /\ resource' = [resource EXCEPT
                       !.current_usage = Max(0, @ - n),
                       !.last = MethodCall("release", n, NULL)]
    /\ UNCHANGED <<ledgerVars, ruleVars, fails, svc, chk, mchk, slot, vres,
                   callVars>>

InitResource ==
    /\ quantity = [r \in ResIds |-> AssignQuantity]
    /\ now = 0
    /\ EmptyLedger
    /\ EmptyRules
    /\ chk = NoCheck
    /\ mchk = NoCheck
    /\ slot = NoCheck
    /\ vres = NoValidation
    /\ IdleCallers
    /\ NoService

\* The arguments tried: constructor values on both sides of the checks of
\* _validate, amounts below, at and above zero.
Amounts == {-1, 0, 1, 2}

NextResource ==
    \/ \E q \in -1..MaxUsage, usage \in -1..MaxUsage, active \in BOOLEAN :
           Construct(q, usage, active)
    \/ \E n \in Amounts : Use(n)
    \/ \E n \in Amounts : Release(n)

SpecResource == InitResource /\ [][NextResource]_vars

\* C30: for a constructed Resource, after any use and release calls with
\* any integer amounts, 0 <= current_usage <= quantity, and a use call that
\* returned False left current_usage as it was.
C30_UsageWithinQuantity ==
    resource.constructed =>
        /\ 0 <= resource.current_usage
        /\ resource.current_usage <= resource.quantity
        /\ (resource.last.op = "use" /\ ~resource.last.returned) =>
               resource.current_usage = resource.last.usage_before

\* --------------------------------------- direct rule validations (rules)
\* Rules between two resources name a related resource or leave it NULL;
\* the quantity rules carry a value and no related resource.
PairRuleTypes == {"requires", "excludes"}

RuleRows ==
    [constraint_id : CIds, resource_id : ResIds, rule_type : PairRuleTypes,
     related_resource_id : {NULL} \cup ResIds]
    \cup
    [constraint_id : CIds, resource_id : ResIds,
     rule_type : RuleTypes \ PairRuleTypes, related_resource_id : {NULL}]

\* ORDER BY c.id; within a constraint the rows come in the order the engine
\* keeps them, here the order of their columns.
RuleTypeOrder == <<"requires", "excludes", "max_capacity", "min_quantity">>

RowKey(row) ==
    <<row.constraint_id, row.resource_id,
      CHOOSE k \in 1..Len(RuleTypeOrder) : RuleTypeOrder[k] = row.rule_type,
      row.related_resource_id>>

RECURSIVE KeyLeq(_, _, _)
KeyLeq(a, b, k) ==
    IF k > Len(a) THEN TRUE
    ELSE IF a[k] # b[k] THEN a[k] < b[k]
    ELSE KeyLeq(a, b, k + 1)

SortedByConstraint(rows) ==
    \A i \in 1..(Len(rows) - 1) : KeyLeq(RowKey(rows[i]), RowKey(rows[i + 1]), 1)

RuleStores == { rows \in SeqsUpTo(RuleRows, MaxRules) : SortedByConstraint(rows) }

ResourceLists == SeqsUpTo(ResIds, MaxLen)

InitRules ==
    /\ constraints \in [CIds -> BOOLEAN]
    /\ constraint_rules \in RuleStores
    /\ quantity \in [ResIds -> {1}]
    /\ now = 0
    /\ EmptyLedger
    /\ chk = NoCheck
    /\ mchk = NoCheck
    /\ slot = NoCheck
    /\ vres = NoValidation
    /\ IdleCallers
    /\ NoService

\* A call of ConstraintService.validate_resources.
ValidateCall(resource_ids) ==
    /\ vres' = [called       |-> TRUE,
                resource_ids |-> resource_ids,
                violations   |-> validate_resources(resource_ids)]
    /\ UNCHANGED <<ledgerVars, ruleVars, serviceVars, chk, mchk, slot, callVars>>

\* A validation reads the tables and writes nothing: one is followed.
NextRules == ~vres.called /\ \E ids \in ResourceLists : ValidateCall(ids)

SpecRules == InitRules /\ [][NextRules]_vars

\* -------------------------------------------------------- claims: rules
Elems(s) == {s[i] : i \in 1..Len(s)}

\* A candidate set: a list that names no resource twice.
IsCandidateSet(s) == \A i, j \in 1..Len(s) : s[i] = s[j] => i = j

\* The store holds one rule row, of an active constraint, of the given type,
\* with subject A and related resource B.
OneActiveRule(rule_type, A, B) ==
    /\ Len(constraint_rules) = 1
    /\ constraints[constraint_rules[1].constraint_id]
    /\ constraint_rules[1].rule_type = rule_type
    /\ constraint_rules[1].resource_id = A
    /\ constraint_rules[1].related_resource_id = B

\* C8: with the single active rule requires(A->B), a candidate set with A and
\* without B yields exactly one violation, missing_requirement(A, B); a
\* candidate set with both A and B yields none.
C8_RequiresRule ==
    \A A \in ResIds, B \in ResIds :
        (vres.called /\ OneActiveRule("requires", A, B)
            /\ IsCandidateSet(vres.resource_ids) /\ A \in Elems(vres.resource_ids))
        => IF B \in Elems(vres.resource_ids)
           THEN vres.violations = <<>>
           ELSE vres.violations = <<[type |-> "missing_requirement",
                                     resource_id |-> A,
                                     related_resource_id |-> B]>>

C8_Witness ==
    \E A \in ResIds, B \in ResIds :
        /\ vres.called /\ OneActiveRule("requires", A, B)
        /\ IsCandidateSet(vres.resource_ids)
        /\ A \in Elems(vres.resource_ids) /\ B \notin Elems(vres.resource_ids)
        /\ Len(vres.violations) = 1

\* C9: with the single active rule excludes(A->B), a candidate set with both
\* A and B yields exactly one violation, mutual_exclusion(A, B); a candidate
\* set with A and without B yields none.
C9_ExcludesRule ==
    \A A \in ResIds, B \in ResIds :
        (vres.called /\ OneActiveRule("excludes", A, B)
            /\ IsCandidateSet(vres.resource_ids) /\ A \in Elems(vres.resource_ids))
        => IF B \in Elems(vres.resource_ids)
           THEN vres.violations = <<[type |-> "mutual_exclusion",
                                     resource_id |-> A,
                                     related_resource_id |-> B]>>
           ELSE vres.violations = <<>>

C9_Witness ==
    \E A \in ResIds, B \in ResIds :
        /\ A # B
        /\ vres.called /\ OneActiveRule("excludes", A, B)
        /\ IsCandidateSet(vres.resource_ids)
        /\ {A, B} \subseteq Elems(vres.resource_ids)
        /\ Len(vres.violations) = 1

\* C10: rules are directional: a rule whose subject is not in the candidate
\* list produces no violation, even when its related resource is in the
\* list; every violation names a subject that is in the list and a rule
\* declared for that subject.
C10_Directional ==
    vres.called =>
        \A k \in 1..Len(vres.violations) :
            LET v == vres.violations[k]
            IN  /\ v.resource_id \in Elems(vres.resource_ids)
                /\ \E n \in 1..Len(constraint_rules) :
                     /\ constraints[constraint_rules[n].constraint_id]
                     /\ constraint_rules[n].resource_id = v.resource_id
                     /\ constraint_rules[n].related_resource_id = v.related_resource_id
                     /\ constraint_rules[n].rule_type =
                            (IF v.type = "missing_requirement"
                             THEN "requires" ELSE "excludes")

C10_Witness ==
    \E n \in 1..Len(constraint_rules) :
        /\ vres.called
        /\ constraints[constraint_rules[n].constraint_id]
        /\ constraint_rules[n].rule_type = "excludes"
        /\ constraint_rules[n].resource_id \notin Elems(vres.resource_ids)
        /\ constraint_rules[n].related_resource_id \in Elems(vres.resource_ids)
        /\ vres.violations = <<>>

\* A stored rule is violated by a candidate set: its constraint is active,
\* its subject is in the set, and the related resource is missing (requires)
\* or present (excludes).
ViolatedBy(row, ids) ==
    /\ constraints[row.constraint_id]
    /\ row.resource_id \in Elems(ids)
    /\ row.related_resource_id # NULL
    /\ \/ (row.rule_type = "requires" /\ row.related_resource_id \notin Elems(ids))
       \/ (row.rule_type = "excludes" /\ row.related_resource_id \in Elems(ids))

ExpectedViolation(row) ==
    [type |-> IF row.rule_type = "requires"
              THEN "missing_requirement" ELSE "mutual_exclusion",
     resource_id |-> row.resource_id,
     related_resource_id |-> row.related_resource_id]

ViolatedRules(ids) ==
    {n \in 1..Len(constraint_rules) : ViolatedBy(constraint_rules[n], ids)}

\* C11: validate_resources never short-circuits: whatever constraints the
\* rules are grouped under, the result holds exactly one violation for each
\* violated pair (resource of the candidate set, rule with that subject),
\* and it is empty if and only if no pair is violated.
C11_NoShortCircuit ==
    (vres.called /\ IsCandidateSet(vres.resource_ids)) =>
        LET viol == ViolatedRules(vres.resource_ids)
        IN  /\ Len(vres.violations) = Cardinality(viol)
            /\ \A n \in viol :
                  Count(vres.violations, ExpectedViolation(constraint_rules[n]))
                  = Cardinality({m \in viol :
                                   ExpectedViolation(constraint_rules[m])
                                   = ExpectedViolation(constraint_rules[n])})
            /\ (vres.violations = <<>> <=> viol = {})

C11_Witness ==
    /\ vres.called /\ IsCandidateSet(vres.resource_ids)
    /\ Len(constraint_rules) = 2
    /\ constraint_rules[1].constraint_id # constraint_rules[2].constraint_id
    /\ ViolatedRules(vres.resource_ids) = {1, 2}
    /\ Len(vres.violations) = 2

\* A rule that can be evaluated: requires or excludes, with a related resource.
Evaluable(row) ==
    row.rule_type \in PairRuleTypes /\ row.related_resource_id # NULL

\* The violations of the active rules that can be evaluated, were they the
\* only rules in the store.
ViolationsOfEvaluable(resource_ids) ==
    LET results == SelectSeq(ActiveRuleRows, Evaluable)
    IN  IF results = <<>> THEN <<>>
        ELSE GroupLoop(resource_ids, results, 1, NULL, <<>>, <<>>)

\* C12: a rule of type max_capacity or min_quantity, and a requires or
\* excludes rule without related resource, never produces a violation and
\* never keeps the other rules from being evaluated: the result is the one
\* the other rules give alone, and every violation stems from a rule that
\* can be evaluated.
C12_UnevaluableSkipped ==
    vres.called =>
        /\ vres.violations = ViolationsOfEvaluable(vres.resource_ids)
        /\ \A k \in 1..Len(vres.violations) :
              \E n \in 1..Len(constraint_rules) :
                  /\ Evaluable(constraint_rules[n])
                  /\ vres.violations[k] = ExpectedViolation(constraint_rules[n])

C12_Witness ==
    /\ vres.called
    /\ Len(constraint_rules) = 2
    /\ constraints[constraint_rules[1].constraint_id]
    /\ constraint_rules[1].constraint_id = constraint_rules[2].constraint_id
    /\ ~Evaluable(constraint_rules[1])
    /\ constraint_rules[1].resource_id \in Elems(vres.resource_ids)
    /\ Evaluable(constraint_rules[2])
    /\ vres.violations = <<ExpectedViolation(constraint_rules[2])>>

\* What validation returns for a list of rule rows taken as the whole store.
ViolationsOver(results, resource_ids) ==
    IF results = <<>> THEN <<>>
    ELSE GroupLoop(resource_ids, results, 1, NULL, <<>>, <<>>)

\* The stored rules of the active constraints other than c, and of c alone.
ActiveRowsWithout(c) ==
    SelectSeq(constraint_rules,
              LAMBDA row : row.constraint_id # c /\ constraints[row.constraint_id])

RowsOf(c) == SelectSeq(constraint_rules, LAMBDA row : row.constraint_id = c)

AllViolations == {"missing_requirement", "mutual_exclusion"}
                    \X ResIds \X ({NULL} \cup ResIds)

ViolationRecord(x) ==
    [type |-> x[1], resource_id |-> x[2], related_resource_id |-> x[3]]

\* C13: the rules of a constraint that is not active produce no violation:
\* the result is the one the rules of the other constraints give. For an
\* active constraint the result is made of the violations the other active
\* constraints give and the violations its own rules give, so deactivating
\* it removes exactly the latter.
C13_InactiveConstraints ==
    vres.called =>
        \A c \in CIds :
            IF ~constraints[c]
            THEN vres.violations
                    = ViolationsOver(ActiveRowsWithout(c), vres.resource_ids)
            ELSE \A x \in AllViolations :
                    Count(vres.violations, ViolationRecord(x))
                    = Count(ViolationsOver(ActiveRowsWithout(c), vres.resource_ids),
                            ViolationRecord(x))
                      + Count(ViolationsOver(RowsOf(c), vres.resource_ids),
                              ViolationRecord(x))

C13_Witness ==
    \E n \in 1..Len(constraint_rules) :
        /\ vres.called
        /\ ~constraints[constraint_rules[n].constraint_id]
        /\ ViolationsOver(<<constraint_rules[n]>>, vres.resource_ids) # <<>>
        /\ vres.violations = <<>>

\* ----------------------------------------------- stores that fail (faults)
\* The tables a query of which can raise.
FailingStores == {"event_resources", "constraint_rules"}

\* A ledger of at most one booking and the workflow's rule stores; each
\* store either answers or raises for the whole behaviour.
InitFaults ==
    /\ quantity = [r \in ResIds |-> AssignQuantity]
    /\ now = 0
    /\ \E rows \in SeqsUpTo(LedgerRows, 1) : LedgerHolds(rows)
    /\ constraints = [cid \in CIds |-> TRUE]
    /\ constraint_rules \in WorkflowRules
    /\ chk = NoCheck
    /\ mchk = NoCheck
    /\ slot = NoCheck
    /\ vres = NoValidation
    /\ IdleCallers
    /\ fails \in SUBSET FailingStores
    /\ svc = NoCheck
    /\ resource = NoResource

\* One call is followed: the calls read the tables and write nothing.
NextFaults ==
    /\ ~chk.called /\ ~mchk.called /\ ~vres.called
    /\ \/ \E r \in ResIds, s \in ReqStarts, e \in ReqEnds :
             CheckCall(r, s, e, NULL)
       \/ \E ids \in SeqsUpTo(ResIds, MaxLen), s \in ReqStarts, e \in ReqEnds :
             MultiCall(ids, s, e, NULL)
       \/ \E ids \in ResourceLists : ValidateCall(ids)

SpecFaults == InitFaults /\ [][NextFaults]_vars

\* C21: when the allocation query raises, check_resource_conflict returns
\* has_conflict = true with the single detail {'error': ...}, and
\* check_multiple_resources_conflict over a non-empty list reports
\* has_conflict = true with every listed resource conflicting: a failed
\* query never yields "no conflict".
C21_FailedQueryConflicts ==
    /\ (chk.called /\ "event_resources" \in fails) =>
           /\ chk.result.has_conflict
           /\ chk.result.conflicts = <<QueryError>>
    /\ (mchk.called /\ "event_resources" \in fails
                    /\ mchk.resource_ids # <<>>) =>
           /\ mchk.result.has_conflict
           /\ mchk.result.conflicting_resources = mchk.resource_ids
           /\ \A k \in 1..Len(mchk.result.conflicts) :
                  mchk.result.conflicts[k] = QueryError

\* A failed query over a ledger in which nothing is booked: the check of a
\* two-resource list still reports a conflict.
C21_Witness ==
    /\ mchk.called
    /\ "event_resources" \in fails
    /\ events = <<>>
    /\ Len(mchk.resource_ids) = 2
    /\ mchk.result.has_conflict
    /\ mchk.result.conflicting_count = 2

\* C22: when the rule-store query raises, validate_resources does not
\* return the empty list.
C22_FailedRulesRejected ==
    (vres.called /\ "constraint_rules" \in fails) => vres.violations # <<>>

\* C23: a create-event request with a window whose end is not after its
\* start sends no query to the rule store or the allocation store: the
\* list of store calls made for it stays empty.
C23_InvalidWindowNoQuery ==
    \A c \in Callers :
        (/\ req[c].app = "cli"
         /\ \E k \in 1..Len(req[c].date_list) :
                ~EventIsValid(req[c].date_list[k]))
        => trace[c] = <<>>

====
